---- MODULE Spec2Model ----
(***************************************************************************)
(* Ports, connections and packets of pyperator (src/pyperator/utils.py),   *)
(* with the asyncio event loop modelled at the granularity of its          *)
(* suspension points: a coroutine runs atomically from one suspending      *)
(* await to the next, and the tasks that asyncio.wait creates in one call  *)
(* take their first step back to back.                                     *)
(*                                                                         *)
(* Logging calls have no effect on the state modelled here and are left    *)
(* out; every port is registered on a component, as the component          *)
(* constructors do.  The graph is wired before it is run.                  *)
(*                                                                         *)
(* Spec has the calls on single ports; WireSpec the wiring statements      *)
(* (pipe operators, initial packets, disconnect) and the calls on single   *)
(* connection objects; RegSpec the PortRegister, starting from ports that  *)
(* are not registered yet; SetSpec the set-wide operations of Component    *)
(* and PortRegister (src/pyperator/nodes.py); RunSpec the run loops of the *)
(* components of src/pyperator/components.py; IipSpec the calls on ports   *)
(* that may carry an initial packet beside their connections.              *)
(***************************************************************************)
EXTENDS Integers, Sequences, FiniteSets, TLC

\* ------------------------------------------------------------------ bounds
\* number of connection objects (Connection or IIPConnection) ever created
MaxConns == 2
\* number of calls made on the ports, over all ports, not counting the
\* receive_packet calls on connected ports (those are bounded by the packets)
MaxOps == 3
\* largest bounded capacity handed to connect
MaxSize == 1

\* ------------------------------------------------------------ the universe
Components == {"A", "B", "S"}
OutputPorts == {"A.OUT", "B.OUT"}
InputPorts == {"B.IN", "S.IN"}
Ports == OutputPorts \cup InputPorts
Conns == 1..MaxConns

\* the component whose constructor registered the port
Registered(p) == CASE p = "A.OUT" -> "A"
                   [] p = "B.OUT" -> "B"
                   [] p = "B.IN" -> "B"
                   [] p = "S.IN" -> "S"

\* the optional flag the constructor of the port was given: one port of each
\* class is optional, the other one mandatory
Optional(p) == p \in {"B.OUT", "B.IN"}

\* size=-1 is the default of connect: asyncio.Queue(maxsize <= 0) is unbounded
Sizes == {-1} \cup (1..MaxSize)

None == "None"

\* the PortRegister objects: Component.inputs and Component.outputs of the
\* components that have such ports
Registers == {"A.outputs", "B.inputs", "B.outputs", "S.inputs"}
\* PortRegister.component
RegisterComponent(r) == CASE r = "A.outputs" -> "A"
                          [] r = "B.inputs" -> "B"
                          [] r = "B.outputs" -> "B"
                          [] r = "S.inputs" -> "S"
\* the register a component adds the port to
InRegister(p) == CASE p = "A.OUT" -> "A.outputs"
                   [] p = "B.OUT" -> "B.outputs"
                   [] p = "B.IN" -> "B.inputs"
                   [] p = "S.IN" -> "S.inputs"
\* PortInterface.name
PortName(p) == IF p \in OutputPorts THEN "OUT" ELSE "IN"
\* the keys a register is asked for
Names == {"IN", "OUT"}
\* no entry under the key
NoPort == "NoPort"

\* pyperator.IP.InformationPacket(value, owner=None)
InformationPacket(value, owner) ==
    [value |-> value, owner |-> owner, is_eos |-> FALSE]

\* pyperator.IP.EndOfStream(): a packet without payload whose is_eos is true
EndOfStream(owner) == [value |-> 0, owner |-> owner, is_eos |-> TRUE]

NoPacket == [value |-> 0, owner |-> None, is_eos |-> FALSE]

\* outcome of a call: what it returned or the exception it raised
Outcome(kind, packet) == [kind |-> kind, packet |-> packet]
NoOutcome == Outcome("pending", NoPacket)
Returned == Outcome("returned", NoPacket)
Raised(e) == Outcome(e, NoPacket)

VARIABLES
    component,    \* port.component
    optional,     \* port.optional
    open,         \* port.open
    iip,          \* port._iip (set by set_initial_packet)
    connections,  \* port.connections, a set of connection objects
    kind,         \* class of a connection object, "none" before it is created
    source,       \* conn.source
    destination,  \* conn.destination
    maxsize,      \* conn._queue.maxsize
    queue,        \* conn._queue, the packets it holds in order
    n_rec,        \* IIPConnection.n_rec
    iipvalue,     \* IIPConnection.value
    ocall,        \* the send, send_packet or close call of an output port:
                  \* where it stands and the outcome of the last one
    icall,        \* the receive_packet call and the close call of an input
                  \* port: where each stands, what the receive tasks of the
                  \* last race took, and the outcome of the last one
    ops,          \* calls counted against MaxOps so far
    wired,        \* outcome of the last connect
    enq,          \* history: packets put on a connection, in order
    deq,          \* history: packets got from a connection, in order
    got,          \* history: the packets and stream ends receive_packet gave
    sent,         \* history: the packets send_packet took on for delivery
    wop,          \* the last wiring statement: its form and its operands
    polls,        \* history: what the direct receive() calls on a connection gave
    ports,        \* PortRegister.ports, per register: key -> port
    regop,        \* the last call made on a register
    regres,       \* its outcome
    task,         \* per port, the task asyncio.ensure_future made for a
                  \* set-wide operation: its state, the call it makes and
                  \* the packet it was given
    setcall,      \* per component, the set-wide operation its loop last
                  \* called: where it stands, the futures it holds, the
                  \* mapping built so far and its outcome
    nset,         \* the number of set-wide operations called so far
    loop,         \* per component, the position of its run loop
    gen,          \* GeneratorSource._gen: the number of items left
    rcall         \* the last call made against the direction of a port

portvars == <<component, optional, open, iip, connections>>
connvars == <<kind, source, destination, maxsize, queue, n_rec, iipvalue>>
callvars == <<ocall, icall, ops, wired>>
histvars == <<enq, deq, got, sent>>
regvars == <<ports, regop, regres>>
runvars == <<task, setcall, nset, loop, gen>>
zvars == <<regvars, runvars>>
\* what the calls on connected, running ports leave alone
xvars == <<wop, polls, rcall, zvars>>
vars == <<portvars, connvars, callvars, histvars, xvars>>

\* a component has at most one call of a kind in progress on a port
Slots == {"receive_packet", "close"}
IdleOut == [pc |-> "idle", op |-> "none", packet |-> NoPacket,
            pending |-> {}, res |-> NoOutcome]
IdleIn == [pc |-> "idle", pending |-> {}, done |-> {}, res |-> NoOutcome]
\* the run loop of a component that is not run
NoLoop == [class |-> "Component", pc |-> "unstarted", exc |-> None]
\* no task was made for the port
NoTask == [st |-> "none", op |-> "none", packet |-> NoPacket]
\* the loop of the component has called no set-wide operation
IdleSet == [op |-> "none", pc |-> "idle", futures |-> <<>>, result |-> {},
            res |-> NoOutcome]

\* every field but the registration of the ports, as the constructors leave it
Unwired ==
    /\ optional = [p \in Ports |-> Optional(p)]
    /\ open = [p \in Ports |-> TRUE]
    /\ iip = [p \in Ports |-> FALSE]
    /\ connections = [p \in Ports |-> {}]
    /\ kind = [c \in Conns |-> "none"]
    /\ source = [c \in Conns |-> {}]
    /\ destination = [c \in Conns |-> {}]
    /\ maxsize = [c \in Conns |-> 0]
    /\ queue = [c \in Conns |-> <<>>]
    /\ n_rec = [c \in Conns |-> 0]
    /\ iipvalue = [c \in Conns |-> NoPacket]
    /\ ocall = [p \in OutputPorts |-> IdleOut]
    /\ icall = [p \in InputPorts |-> [s \in Slots |-> IdleIn]]
    /\ ops = 0
    /\ wired = "none"
    /\ enq = [c \in Conns |-> <<>>]
    /\ deq = [c \in Conns |-> <<>>]
    /\ got = [p \in InputPorts |-> <<>>]
    /\ sent = [p \in OutputPorts |-> <<>>]
    /\ wop = <<"none">>
    /\ polls = [c \in Conns |-> <<>>]
    /\ rcall = <<"none">>
    /\ regop = <<"none">>
    /\ regres = "none"
    /\ task = [p \in Ports |-> NoTask]
    /\ setcall = [c \in Components |-> IdleSet]
    /\ nset = 0

\* the components are constructed: each has registered its ports under their
\* names
Init ==
    /\ component = [p \in Ports |-> Registered(p)]
    /\ ports = [r \in Registers |-> [n \in Names |->
                   IF \E p \in Ports : InRegister(p) = r /\ PortName(p) = n
                   THEN CHOOSE p \in Ports : InRegister(p) = r /\ PortName(p) = n
                   ELSE NoPort]]
    /\ loop = [c \in Components |-> NoLoop]
    /\ gen = 0
    /\ Unwired

\* ------------------------------------------------------------------ wiring
\* Faulty variant of is_connected: a port without connection counts as
\* connected
is_connected_ge(p) == Cardinality(connections[p]) >= 0

\* PortInterface.is_connected
is_connected(p) == Cardinality(connections[p]) > 0

\* Faulty variant of full: the queue is taken as full only once it holds more
\* than maxsize packets
full_late(c) == maxsize[c] > 0 /\ Len(queue[c]) > maxsize[c]

\* asyncio.Queue.full(): never full when maxsize <= 0
full(c) == maxsize[c] > 0 /\ Len(queue[c]) >= maxsize[c]

\* the connection object the next constructor call returns
Fresh(c) == kind[c] = "none" /\ \A d \in Conns : d < c => kind[d] # "none"

\* The graph is wired before it is run: no call was made on a port yet
Wiring ==
    /\ ops = 0
    /\ ocall = [p \in OutputPorts |-> IdleOut]
    /\ icall = [p \in InputPorts |-> [s \in Slots |-> IdleIn]]

\* ConnectionInterface.capacity: -1 without a queue; with a queue the
\* property calls self._queue.maxsize, an int, which raises TypeError
capacity(c) ==
    IF kind[c] = "Connection"
    THEN [raises |-> "TypeError", value |-> 0]
    ELSE [raises |-> None, value |-> -1]

\* Connection.connect(source, destination, size) on the connection object c
Connection_connect(c, o, i, size) ==
    IF Cardinality(destination[c]) > 0
    THEN IF capacity(c).raises # None
         THEN /\ wired' = capacity(c).raises
              /\ UNCHANGED <<kind, source, destination, maxsize, queue,
                             connections>>
         ELSE IF size = capacity(c).value
              THEN /\ source' = [source EXCEPT ![c] = @ \cup {o}]
                   /\ destination' = [destination EXCEPT ![c] = @ \cup {i}]
                   /\ connections' = [connections EXCEPT ![i] = @ \cup {c},
                                                         ![o] = @ \cup {c}]
                   /\ wired' = "connected"
                   /\ UNCHANGED <<kind, maxsize, queue>>
              ELSE /\ wired' = "ValueError"
                   /\ UNCHANGED <<kind, source, destination, maxsize, queue,
                                  connections>>
    ELSE /\ kind' = [kind EXCEPT ![c] = "Connection"]
         /\ source' = [source EXCEPT ![c] = @ \cup {o}]
         /\ destination' = [destination EXCEPT ![c] = @ \cup {i}]
         /\ maxsize' = [maxsize EXCEPT ![c] = size]
         /\ queue' = [queue EXCEPT ![c] = <<>>]
         /\ connections' = [connections EXCEPT ![i] = @ \cup {c},
                                               ![o] = @ \cup {c}]
         /\ wired' = "connected"

\* OutputPort.connect(other, size) and InputPort.connect(other, size): both
\* make a new Connection and call its connect(source, destination, size)
connect(o, i, size) ==
    /\ Wiring
    /\ component[o] # component[i]
    /\ \E c \in Conns : Fresh(c) /\ Connection_connect(c, o, i, size)
    /\ UNCHANGED <<component, optional, open, iip, n_rec, iipvalue>>
    /\ UNCHANGED <<ocall, icall, ops, histvars>>

Connect == \E o \in OutputPorts, i \in InputPorts, size \in Sizes :
    /\ connect(o, i, size)
    /\ wop' = <<"connect", o, i>>
    /\ UNCHANGED <<polls, rcall, zvars>>

\* ------------------------------------------------------------ output ports
\* the check of OutputPort.send_packet on the packet's owner
owner_ok(p, packet) == packet.owner = component[p] \/ packet.owner = None

\* the connections of cs whose queue has room: Connection.send puts the
\* packet on them without suspending
accepting(cs) == {c \in cs : ~full(c)}

\* Faulty variant of put: the packet reaches only one connection of cs
put_one(cs, packet) ==
    LET one == IF cs = {} THEN {} ELSE {CHOOSE c \in cs : TRUE} IN
    /\ queue' = [c \in Conns |-> IF c \in one THEN Append(queue[c], packet)
                                 ELSE queue[c]]
    /\ enq' = [c \in Conns |-> IF c \in one THEN Append(enq[c], packet)
                               ELSE enq[c]]

\* Faulty variant of put: the packet goes to the head of the queues
put_front(cs, packet) ==
    /\ queue' = [c \in Conns |-> IF c \in cs THEN <<packet>> \o queue[c]
                                 ELSE queue[c]]
    /\ enq' = [c \in Conns |-> IF c \in cs THEN <<packet>> \o enq[c]
                               ELSE enq[c]]

\* Queue.put_nowait of the packet on every connection of cs
put(cs, packet) ==
    /\ queue' = [c \in Conns |-> IF c \in cs THEN Append(queue[c], packet)
                                 ELSE queue[c]]
    /\ enq' = [c \in Conns |-> IF c \in cs THEN Append(enq[c], packet)
                               ELSE enq[c]]

\* Faulty variant of finish_out: a send that returns marks the port open
finish_out_reopening(p) ==
    /\ ocall' = [ocall EXCEPT ![p] = [IdleOut EXCEPT !.res = Returned]]
    /\ open' = [open EXCEPT ![p] = ocall[p].op # "close"]

\* Faulty variant of finish_out: every call that returns closes the port
finish_out_closing(p) ==
    /\ ocall' = [ocall EXCEPT ![p] = [IdleOut EXCEPT !.res = Returned]]
    /\ open' = [open EXCEPT ![p] = FALSE]

\* The end of a send_packet call; OutputPort.close then marks the port closed
finish_out(p) ==
    /\ ocall' = [ocall EXCEPT ![p] = [IdleOut EXCEPT !.res = Returned]]
    /\ open' = [open EXCEPT ![p] = IF ocall[p].op = "close" THEN FALSE ELSE @]

\* OutputPort.send_packet up to the suspension of its tasks: the checks, then
\* either asyncio.wait over one Connection.send per bound connection, each of
\* which puts the packet at once when its queue has room, or the drop of the
\* packet and asyncio.sleep(0), or the error.  The checks read only fields of
\* the port, which no other task writes, so they and the first step of the
\* tasks are one step.
send_packet(p, packet, op) ==
    /\ ocall[p].pc = "idle"
    /\ ops < MaxOps
    /\ ops' = ops + 1
    /\ IF is_connected(p)
       THEN IF owner_ok(p, packet)
            THEN /\ ocall' = [ocall EXCEPT ![p] =
                        [pc |-> "waiting", op |-> op, packet |-> packet,
                         pending |-> connections[p]
                                        \ accepting(connections[p]),
                         res |-> NoOutcome]]
                 /\ put(accepting(connections[p]), packet)
                 /\ sent' = [sent EXCEPT ![p] = Append(@, packet)]
            ELSE /\ ocall' = [ocall EXCEPT ![p].res =
                                   Raised("PacketOwnedError")]
                 /\ UNCHANGED <<queue, enq, sent>>
       ELSE /\ UNCHANGED <<queue, enq, sent>>
            /\ IF optional[p]
               THEN ocall' = [ocall EXCEPT ![p] =
                           [pc |-> "sleep", op |-> op, packet |-> NoPacket,
                            pending |-> {}, res |-> NoOutcome]]
               ELSE ocall' = [ocall EXCEPT ![p].res =
                                   Raised("PortDisconnectedError")]
    /\ UNCHANGED <<portvars, kind, source, destination, maxsize, n_rec,
                   iipvalue, icall, wired, deq, got>>

\* PortInterface.send(value): the packet is made without an owner; the
\* payloads are 1, 2, ... in the order of the calls
Send == \E p \in OutputPorts :
    /\ send_packet(p, InformationPacket(ops + 1, None), "send")
    /\ UNCHANGED xvars

\* outcome of the last receive_packet call on the input port
received(i) == icall[i]["receive_packet"].res

\* send_packet with the packet the component last received, unmodified
Forward == \E p \in OutputPorts, i \in InputPorts :
    /\ component[i] = component[p]
    /\ received(i).kind = "packet"
    /\ send_packet(p, received(i).packet, "send_packet")
    /\ UNCHANGED xvars

\* OutputPort.close: an EndOfStream owned by the component goes through
\* send_packet, and the port is marked closed when that returns
Close == \E p \in OutputPorts :
    /\ send_packet(p, EndOfStream(component[p]), "close")
    /\ UNCHANGED xvars

\* Faulty variant of put_step: a suspended Connection.send is given up
put_step_skip(p, c) ==
    /\ ocall[p].pc = "waiting"
    /\ c \in ocall[p].pending
    /\ ocall' = [ocall EXCEPT ![p].pending = @ \ {c}]
    /\ UNCHANGED <<queue, enq>>
    /\ UNCHANGED <<portvars, kind, source, destination, maxsize, n_rec,
                   iipvalue, icall, ops, wired, deq, got, sent>>

\* A suspended Connection.send resumes once its queue has room
put_step(p, c) ==
    /\ ocall[p].pc = "waiting"
    /\ c \in accepting(ocall[p].pending)
    /\ put({c}, ocall[p].packet)
    /\ ocall' = [ocall EXCEPT ![p].pending = @ \ {c}]
    /\ UNCHANGED <<portvars, kind, source, destination, maxsize, n_rec,
                   iipvalue, icall, ops, wired, deq, got, sent>>

PutStep == \E p \in OutputPorts, c \in Conns :
    /\ put_step(p, c)
    /\ UNCHANGED xvars

\* asyncio.wait(..., ALL_COMPLETED) returns: every Connection.send is done
SendDone == \E p \in OutputPorts :
    /\ ocall[p].pc = "waiting"
    /\ ocall[p].pending = {}
    /\ finish_out(p)
    /\ UNCHANGED <<component, optional, iip, connections, connvars, icall,
                   ops, wired, histvars>>
    /\ UNCHANGED xvars

\* asyncio.sleep(0) returns on an optional port without connection
DropDone == \E p \in OutputPorts :
    /\ ocall[p].pc = "sleep"
    /\ finish_out(p)
    /\ UNCHANGED <<component, optional, iip, connections, connvars, icall,
                   ops, wired, histvars>>
    /\ UNCHANGED xvars

\* ------------------------------------------------------------- input ports
\* Faulty variant of yield: the IIPConnection tests n_rec < 0
yield_late(c) ==
    IF kind[c] = "IIPConnection"
    THEN IF n_rec[c] < 0 THEN EndOfStream(None) ELSE iipvalue[c]
    ELSE Head(queue[c])

\* what the receive task of connection c yields when it can complete at once:
\* Connection.receive takes the head of a queue that is not empty,
\* IIPConnection.receive gives its value while n_rec > 0 and EndOfStream after
yield(c) ==
    IF kind[c] = "IIPConnection"
    THEN IF n_rec[c] <= 0 THEN EndOfStream(None) ELSE iipvalue[c]
    ELSE Head(queue[c])

\* the receive tasks, among those of the connections cs, that complete
\* without suspending
ready(cs) == {c \in cs : kind[c] = "IIPConnection" \/ queue[c] # <<>>}

\* Faulty variant of take: the queue gives up its newest packet
take_last(cs) ==
    /\ queue' = [c \in Conns |-> IF c \in cs /\ kind[c] = "Connection"
                                 THEN SubSeq(queue[c], 1, Len(queue[c]) - 1)
                                 ELSE queue[c]]
    /\ deq' = [c \in Conns |-> IF c \in cs /\ kind[c] = "Connection"
                               THEN Append(deq[c], queue[c][Len(queue[c])])
                               ELSE deq[c]]
    /\ n_rec' = [c \in Conns |-> IF c \in cs /\ kind[c] = "IIPConnection"
                                      /\ n_rec[c] > 0
                                 THEN n_rec[c] - 1 ELSE n_rec[c]]

\* the effect of the receive tasks of the connections in cs completing
take(cs) ==
    /\ queue' = [c \in Conns |-> IF c \in cs /\ kind[c] = "Connection"
                                 THEN Tail(queue[c]) ELSE queue[c]]
    /\ deq' = [c \in Conns |-> IF c \in cs /\ kind[c] = "Connection"
                               THEN Append(deq[c], Head(queue[c]))
                               ELSE deq[c]]
    /\ n_rec' = [c \in Conns |-> IF c \in cs /\ kind[c] = "IIPConnection"
                                      /\ n_rec[c] > 0
                                 THEN n_rec[c] - 1 ELSE n_rec[c]]

\* Faulty variant of receive_packet: a port without connection is taken for
\* a mandatory one
receive_packet_mandatory(p) ==
    /\ icall[p]["receive_packet"].pc = "idle"
    /\ IF is_connected(p)
       THEN IF open[p]
            THEN /\ icall' = [icall EXCEPT ![p]["receive_packet"] =
                        [pc |-> "racing",
                         pending |-> connections[p] \ ready(connections[p]),
                         done |-> {<<c, yield(c)>> :
                                     c \in ready(connections[p])},
                         res |-> NoOutcome]]
                 /\ take(ready(connections[p]))
                 /\ UNCHANGED ops
            ELSE /\ icall' = [icall EXCEPT ![p]["receive_packet"] =
                        [IdleIn EXCEPT !.res = Raised("PortClosedError")]]
                 /\ UNCHANGED <<ops, queue, deq, n_rec>>
       ELSE /\ ops < MaxOps
            /\ ops' = ops + 1
            /\ UNCHANGED <<queue, deq, n_rec>>
            /\ icall' = [icall EXCEPT ![p]["receive_packet"] =
                           [IdleIn EXCEPT !.res =
                               Raised("PortDisconnectedError")]]
    /\ UNCHANGED <<portvars, kind, source, destination, maxsize, iipvalue,
                   ocall, wired, enq, got, sent>>

\* InputPort.receive_packet up to the suspension of its tasks: the checks,
\* then asyncio.wait over one receive task per bound connection; each task
\* whose connection has a packet takes it at its first step, the others
\* suspend in Queue.get.  The checks read only fields of the port, which no
\* other task writes, so they and the first step of the tasks are one step.
receive_packet(p) ==
    /\ icall[p]["receive_packet"].pc = "idle"
    /\ IF is_connected(p)
       THEN IF open[p]
            THEN /\ icall' = [icall EXCEPT ![p]["receive_packet"] =
                        [pc |-> "racing",
                         pending |-> connections[p] \ ready(connections[p]),
                         done |-> {<<c, yield(c)>> :
                                     c \in ready(connections[p])},
                         res |-> NoOutcome]]
                 /\ take(ready(connections[p]))
                 /\ UNCHANGED ops
            ELSE /\ icall' = [icall EXCEPT ![p]["receive_packet"] =
                        [IdleIn EXCEPT !.res = Raised("PortClosedError")]]
                 /\ UNCHANGED <<ops, queue, deq, n_rec>>
       ELSE /\ ops < MaxOps
            /\ ops' = ops + 1
            /\ UNCHANGED <<queue, deq, n_rec>>
            /\ IF optional[p]
               THEN icall' = [icall EXCEPT ![p]["receive_packet"] =
                           [pc |-> "sleep", pending |-> {}, done |-> {},
                            res |-> NoOutcome]]
               ELSE icall' = [icall EXCEPT ![p]["receive_packet"] =
                           [IdleIn EXCEPT !.res =
                               Raised("PortDisconnectedError")]]
    /\ UNCHANGED <<portvars, kind, source, destination, maxsize, iipvalue,
                   ocall, wired, enq, got, sent>>

Receive == \E p \in InputPorts :
    /\ receive_packet(p)
    /\ UNCHANGED xvars

\* A suspended receive task resumes once its queue holds a packet; the race
\* is not yet resolved, so the task is not cancelled
RaceGet == \E p \in InputPorts, c \in Conns :
    /\ icall[p]["receive_packet"].pc = "racing"
    /\ c \in ready(icall[p]["receive_packet"].pending)
    /\ take({c})
    /\ icall' = [icall EXCEPT
                    ![p]["receive_packet"].pending = @ \ {c},
                    ![p]["receive_packet"].done = @ \cup {<<c, yield(c)>>}]
    /\ UNCHANGED <<portvars, kind, source, destination, maxsize, iipvalue,
                   ocall, ops, wired, enq, got, sent>>
    /\ UNCHANGED xvars

\* the joins, among those of the connections cs, that have to wait:
\* Queue.join returns once every packet put on the queue was taken
unjoined(cs) == {c \in cs : queue[c] # <<>>}

\* The end of the call s of an input port with outcome r; receive_packet's
\* packets and stream ends are recorded
finish_in(p, s, r) ==
    /\ icall' = [icall EXCEPT ![p][s].pc = "idle", ![p][s].pending = {},
                              ![p][s].res = r]
    /\ got' = [got EXCEPT ![p] =
                IF r.kind \in {"packet", "StopAsyncIteration"}
                THEN Append(@, r) ELSE @]

\* Faulty variant of close_input: the EndOfStream is handed to the caller as
\* a packet and the port stays open
close_input_eos_packet(p, s, r) ==
    /\ finish_in(p, s, Outcome("packet", EndOfStream(None)))
    /\ UNCHANGED open

\* InputPort.close up to its first suspension, called in the call s, with the
\* outcome r to give once the port is closed
close_input(p, s, r) ==
    IF ~iip[p]
    THEN IF connections[p] = {}
         THEN \* asyncio.wait of an empty list raises ValueError
              /\ finish_in(p, s, Raised("ValueError"))
              /\ UNCHANGED open
         ELSE /\ icall' = [icall EXCEPT ![p][s].pc = "join_created",
                                        ![p][s].pending = connections[p],
                                        ![p][s].res = NoOutcome]
              /\ UNCHANGED <<open, got>>
    ELSE /\ open' = [open EXCEPT ![p] = FALSE]
         /\ finish_in(p, s, r)

\* asyncio.wait(..., FIRST_COMPLETED) returns: done.pop() picks one of the
\* completed tasks, the suspended ones are cancelled; then the rest of
\* receive_packet up to the next suspension
RaceResolve == \E p \in InputPorts :
    /\ icall[p]["receive_packet"].pc = "racing"
    /\ \E w \in icall[p]["receive_packet"].done :
        LET packet == w[2] IN
        IF packet.is_eos
        THEN close_input(p, "receive_packet", Raised("StopAsyncIteration"))
        ELSE /\ open' = [open EXCEPT ![p] = IF iip[p] THEN FALSE ELSE @]
             /\ finish_in(p, "receive_packet", Outcome("packet", packet))
    /\ UNCHANGED <<component, optional, iip, connections, connvars, ocall,
                   ops, wired, enq, deq, sent>>
    /\ UNCHANGED xvars

\* InputPort.close called by the component
CloseInput == \E p \in InputPorts :
    /\ icall[p]["close"].pc = "idle"
    /\ ops < MaxOps
    /\ ops' = ops + 1
    /\ close_input(p, "close", Returned)
    /\ UNCHANGED <<component, optional, iip, connections, connvars, ocall,
                   wired, enq, deq, sent>>
    /\ UNCHANGED xvars

\* First step of the Queue.join tasks: the join of an empty queue completes
JoinStart == \E p \in InputPorts, s \in Slots :
    /\ icall[p][s].pc = "join_created"
    /\ icall' = [icall EXCEPT ![p][s].pc = "joining",
                              ![p][s].pending = unjoined(@)]
    /\ UNCHANGED <<portvars, connvars, ocall, ops, wired, histvars>>
    /\ UNCHANGED xvars

\* A suspended Queue.join resumes once every packet of its queue was taken
JoinStep == \E p \in InputPorts, s \in Slots, c \in Conns :
    /\ icall[p][s].pc = "joining"
    /\ c \in icall[p][s].pending \ unjoined(icall[p][s].pending)
    /\ icall' = [icall EXCEPT ![p][s].pending = @ \ {c}]
    /\ UNCHANGED <<portvars, connvars, ocall, ops, wired, histvars>>
    /\ UNCHANGED xvars

\* asyncio.wait(..., ALL_COMPLETED) of InputPort.close returns: the port is
\* marked closed, and receive_packet raises StopAsyncIteration
CloseDone == \E p \in InputPorts, s \in Slots :
    /\ icall[p][s].pc = "joining"
    /\ icall[p][s].pending = {}
    /\ open' = [open EXCEPT ![p] = FALSE]
    /\ finish_in(p, s, IF s = "receive_packet"
                       THEN Raised("StopAsyncIteration") ELSE Returned)
    /\ UNCHANGED <<component, optional, iip, connections, connvars, ocall,
                   ops, wired, enq, deq, sent>>
    /\ UNCHANGED xvars

\* asyncio.sleep(0) returns on an optional port without connection:
\* receive_packet returns None
NoData == \E p \in InputPorts :
    /\ icall[p]["receive_packet"].pc = "sleep"
    /\ finish_in(p, "receive_packet", Outcome("None", NoPacket))
    /\ UNCHANGED <<portvars, connvars, ocall, ops, wired, enq, deq, sent>>
    /\ UNCHANGED xvars

Next ==
    \/ Connect
    \/ Send
    \/ Forward
    \/ Close
    \/ PutStep
    \/ SendDone
    \/ DropDone
    \/ Receive
    \/ RaceGet
    \/ RaceResolve
    \/ CloseInput
    \/ JoinStart
    \/ JoinStep
    \/ CloseDone
    \/ NoData

Spec == Init /\ [][Next]_vars

\* ---------------------------------------------- wiring statements and
\* ---------------------------------------------- calls on single objects
\* largest number of direct receive() calls on one IIPConnection
MaxPolls == 3

\* number of send and close calls made on the ports of a graph that is
\* being defined
MaxWireOps == 2

\* the values given to set_initial_packet and to the pipe operators
InitialValues == {9}

\* a pipe operand that is not a port, as it stands in conn.source or
\* conn.destination
NonPort == "value"

\* the two connection objects the next two constructor calls return
FreshPair(c, d) == Fresh(c) /\ d = c + 1 /\ d \in Conns

\* IIPConnection(packet), IIPConnection.connect(destination) and the rest of
\* InputPort.set_initial_packet(value) on the new connection object c
IIPConnection_connect(c, i, value) ==
    /\ kind' = [kind EXCEPT ![c] = "IIPConnection"]
    /\ iipvalue' = [iipvalue EXCEPT ![c] =
                        InformationPacket(value, component[i])]
    /\ n_rec' = [n_rec EXCEPT ![c] = 1]
    /\ source' = [source EXCEPT ![c] = {NonPort}]
    /\ destination' = [destination EXCEPT ![c] = @ \cup {i}]
    /\ connections' = [connections EXCEPT ![i] = @ \cup {c}]
    /\ iip' = [iip EXCEPT ![i] = TRUE]

\* InputPort.set_initial_packet(value)
set_initial_packet(i, value) ==
    /\ Wiring
    /\ \E c \in Conns : Fresh(c) /\ IIPConnection_connect(c, i, value)
    /\ wired' = "connected"
    /\ UNCHANGED <<component, optional, open, maxsize, queue>>
    /\ UNCHANGED <<ocall, icall, ops, histvars, polls, rcall, zvars>>

SetInitialPacket == \E i \in InputPorts, value \in InitialValues :
    /\ set_initial_packet(i, value)
    /\ wop' = <<"set_initial_packet", i, NonPort>>

\* a >> b with two ports, PortInterface.__rshift__: self.connect(other)
\* succeeds, with the default size of connect
rshift_ports(o, i) ==
    /\ connect(o, i, -1)
    /\ UNCHANGED <<polls, rcall, zvars>>

\* out >> value, PortInterface.__rshift__ on an output port: Connection.connect
\* fills the new connection object and fails with AttributeError on
\* destination.connections; the handler calls self.set_initial_packet, which
\* an OutputPort does not have, so AttributeError leaves the statement.  The
\* connection object is bound to no port.
rshift_output_value(o) ==
    /\ Wiring
    /\ \E c \in Conns :
        /\ Fresh(c)
        /\ kind' = [kind EXCEPT ![c] = "Connection"]
        /\ source' = [source EXCEPT ![c] = @ \cup {o}]
        /\ destination' = [destination EXCEPT ![c] = @ \cup {NonPort}]
        /\ maxsize' = [maxsize EXCEPT ![c] = -1]
        /\ queue' = [queue EXCEPT ![c] = <<>>]
    /\ wired' = "AttributeError"
    /\ UNCHANGED <<portvars, n_rec, iipvalue>>
    /\ UNCHANGED <<ocall, icall, ops, histvars, polls, rcall, zvars>>

\* inp >> value, PortInterface.__rshift__ on an input port: Connection.connect
\* fills the new connection object, adds it to the input port's connections
\* and fails with AttributeError on source.connections; the handler then
\* binds an IIPConnection with self.set_initial_packet(value)
rshift_input_value(i, value) ==
    /\ Wiring
    /\ \E c, d \in Conns :
        /\ FreshPair(c, d)
        /\ kind' = [kind EXCEPT ![c] = "Connection", ![d] = "IIPConnection"]
        /\ source' = [source EXCEPT ![c] = @ \cup {NonPort},
                                    ![d] = {NonPort}]
        /\ destination' = [destination EXCEPT ![c] = @ \cup {i},
                                              ![d] = @ \cup {i}]
        /\ maxsize' = [maxsize EXCEPT ![c] = -1]
        /\ queue' = [queue EXCEPT ![c] = <<>>]
        /\ iipvalue' = [iipvalue EXCEPT ![d] =
                            InformationPacket(value, component[i])]
        /\ n_rec' = [n_rec EXCEPT ![d] = 1]
        /\ connections' = [connections EXCEPT ![i] = @ \cup {c, d}]
    /\ iip' = [iip EXCEPT ![i] = TRUE]
    /\ wired' = "connected"
    /\ UNCHANGED <<component, optional, open>>
    /\ UNCHANGED <<ocall, icall, ops, histvars, polls, rcall, zvars>>

\* value >> port, PortInterface.__rrshift__: other.connect fails with
\* AttributeError and the handler calls self.set_initial_packet(other), which
\* an OutputPort does not have
rrshift(p, value) ==
    IF p \in InputPorts
    THEN set_initial_packet(p, value)
    ELSE /\ Wiring
         /\ wired' = "AttributeError"
         /\ UNCHANGED <<portvars, connvars>>
         /\ UNCHANGED <<ocall, icall, ops, histvars, polls, rcall, zvars>>

\* the pipe statements of a graph definition
Pipe ==
    \/ \E o \in OutputPorts, i \in InputPorts :
        rshift_ports(o, i) /\ wop' = <<"rshift", o, i>>
    \/ \E o \in OutputPorts :
        rshift_output_value(o) /\ wop' = <<"rshift", o, NonPort>>
    \/ \E i \in InputPorts, value \in InitialValues :
        rshift_input_value(i, value) /\ wop' = <<"rshift", i, NonPort>>
    \/ \E p \in Ports, value \in InitialValues :
        rrshift(p, value) /\ wop' = <<"rrshift", NonPort, p>>

\* Faulty variant of disconnect: only the destination ports let go of the
\* connection
disconnect_destinations(c) ==
    /\ kind[c] = "Connection"
    /\ source[c] \cup destination[c] \subseteq Ports
    /\ IF \A p \in destination[c] : c \in connections[p]
       THEN /\ connections' = [p \in Ports |->
                    IF p \in destination[c]
                    THEN connections[p] \ {c} ELSE connections[p]]
            /\ wired' = "disconnected"
       ELSE /\ wired' = "KeyError"
            /\ UNCHANGED connections
    /\ UNCHANGED <<component, optional, open, iip, connvars>>
    /\ UNCHANGED <<ocall, icall, ops, histvars, polls, rcall, zvars>>

\* Connection.disconnect() of a connection between ports: every destination
\* and every source port removes it from its connections; set.remove raises
\* KeyError at the first port that does not hold it
disconnect(c) ==
    /\ kind[c] = "Connection"
    /\ source[c] \cup destination[c] \subseteq Ports
    /\ IF \A p \in destination[c] \cup source[c] : c \in connections[p]
       THEN /\ connections' = [p \in Ports |->
                    IF p \in destination[c] \cup source[c]
                    THEN connections[p] \ {c} ELSE connections[p]]
            /\ wired' = "disconnected"
       ELSE /\ wired' = "KeyError"
            /\ UNCHANGED connections
    /\ UNCHANGED <<component, optional, open, iip, connvars>>
    /\ UNCHANGED <<ocall, icall, ops, histvars, polls, rcall, zvars>>

Disconnect == \E c \in Conns : disconnect(c) /\ wop' = <<"disconnect">>

\* IIPConnection.receive() called on the connection object itself
IIPConnection_receive(c) ==
    /\ kind[c] = "IIPConnection"
    /\ Len(polls[c]) < MaxPolls
    /\ polls' = [polls EXCEPT ![c] = Append(@, yield(c))]
    /\ take({c})
    /\ UNCHANGED <<portvars, kind, source, destination, maxsize, iipvalue>>
    /\ UNCHANGED <<callvars, enq, got, sent, wop, rcall, zvars>>

Poll == \E c \in Conns : IIPConnection_receive(c)

\* Faulty variant of OutputPort.receive_packet: the error of the other class
OutputPort_receive_packet_swapped(p) ==
    /\ rcall' = <<p, "InputOnlyError">>
    /\ UNCHANGED <<portvars, connvars, callvars, histvars, wop, polls, zvars>>

\* OutputPort.receive_packet, also reached through PortInterface.receive
OutputPort_receive_packet(p) ==
    /\ rcall' = <<p, "OutputOnlyError">>
    /\ UNCHANGED <<portvars, connvars, callvars, histvars, wop, polls, zvars>>

\* InputPort.send_packet, also reached through PortInterface.send
InputPort_send_packet(p) ==
    /\ rcall' = <<p, "InputOnlyError">>
    /\ UNCHANGED <<portvars, connvars, callvars, histvars, wop, polls, zvars>>

RoleCall ==
    \/ \E p \in OutputPorts : OutputPort_receive_packet(p)
    \/ \E p \in InputPorts : InputPort_send_packet(p)

\* send and close calls on the ports of the graph so defined, so that there
\* are queued packets and closed ports
WireSend == ops < MaxWireOps /\ Send

WireClose == ops < MaxWireOps /\ Close

\* Graph definitions with every wiring statement, and calls made on single
\* ports and connections
WireNext ==
    \/ Connect
    \/ Pipe
    \/ SetInitialPacket
    \/ Disconnect
    \/ Poll
    \/ RoleCall
    \/ WireSend
    \/ WireClose
    \/ SendDone
    \/ DropDone

WireSpec == Init /\ [][WireNext]_vars

\* ------------------------------------------------------------ PortRegister
\* the registers and the ports are constructed and no port is registered yet
RegInit ==
    /\ component = [p \in Ports |-> None]
    /\ ports = [r \in Registers |-> [n \in Names |-> NoPort]]
    /\ loop = [c \in Components |-> NoLoop]
    /\ gen = 0
    /\ Unwired

\* PortRegister.add_as(port, name): a port that has a component is refused,
\* any other port gets the register's component and is stored under the key
\* by dict.update, which replaces the entry the key had
add_as(r, p, n) ==
    /\ regop' = <<"add_as", r, p, n>>
    /\ IF component[p] # None
       THEN /\ regres' = "PortAlreadyExistingError"
            /\ UNCHANGED <<component, ports>>
       ELSE /\ component' = [component EXCEPT ![p] = RegisterComponent(r)]
            /\ ports' = [ports EXCEPT ![r][n] = p]
            /\ regres' = "added"
    /\ UNCHANGED <<optional, open, iip, connections, connvars>>
    /\ UNCHANGED <<ocall, icall, wired, histvars, wop, polls, rcall>>
    /\ UNCHANGED runvars

\* PortRegister.add(port)
add(r, p) == add_as(r, p, PortName(p))

\* PortRegister.export(port, name): dict.update of the key, the component of
\* the port being neither read nor written
export(r, p, n) ==
    /\ regop' = <<"export", r, p, n>>
    /\ ports' = [ports EXCEPT ![r][n] = p]
    /\ regres' = "added"
    /\ UNCHANGED <<portvars, connvars, ocall, icall, wired, histvars>>
    /\ UNCHANGED <<wop, polls, rcall, runvars>>

\* PortRegister.__getitem__(item), also reached through __getattr__
getitem(r, n) ==
    /\ regop' = <<"getitem", r, n>>
    /\ regres' = IF ports[r][n] # NoPort THEN ports[r][n]
                 ELSE "PortNotExistingError"
    /\ UNCHANGED <<portvars, connvars, ocall, icall, wired, histvars>>
    /\ UNCHANGED <<wop, polls, rcall, ports, runvars>>

\* PortRegister.remove(port_name): dict.pop of the key
remove(r, n) ==
    /\ regop' = <<"remove", r, n>>
    /\ IF ports[r][n] # NoPort
       THEN /\ ports' = [ports EXCEPT ![r][n] = NoPort]
            /\ regres' = "removed"
       ELSE /\ regres' = "KeyError"
            /\ UNCHANGED ports
    /\ UNCHANGED <<portvars, connvars, ocall, icall, wired, histvars>>
    /\ UNCHANGED <<wop, polls, rcall, runvars>>

\* calls made on the registers
MaxRegOps == 3
RegOp == ops < MaxRegOps /\ ops' = ops + 1

Add == RegOp /\ \E r \in Registers, p \in Ports : add(r, p)
AddAs == RegOp /\ \E r \in Registers, p \in Ports, n \in Names : add_as(r, p, n)
GetItem == RegOp /\ \E r \in Registers, n \in Names : getitem(r, n)
Remove == RegOp /\ \E r \in Registers, n \in Names : remove(r, n)
Export == RegOp /\ \E r \in Registers, p \in Ports, n \in Names : export(r, p, n)

RegNext == Add \/ AddAs \/ GetItem \/ Remove \/ Export

RegSpec == RegInit /\ [][RegNext]_vars

\* ------------------------------------------------- set-wide operations
\* the registers that are the inputs and the outputs of a component
InputRegisters == {"B.inputs", "S.inputs"}
OutputRegisters == {"A.outputs", "B.outputs"}

\* PortRegister.values(): the set of the ports the register holds
values(r) == {ports[r][n] : n \in Names} \ {NoPort}

\* the ports of self.inputs and of self.outputs
inputs(comp) ==
    UNION {values(r) : r \in {q \in InputRegisters :
                                 RegisterComponent(q) = comp}}
outputs(comp) ==
    UNION {values(r) : r \in {q \in OutputRegisters :
                                 RegisterComponent(q) = comp}}

\* the orders in which a loop over the set S may visit it
Orders(S) ==
    {q \in [1..Cardinality(S) -> S] : \A p \in S : \E k \in DOMAIN q : q[k] = p}

\* the payload None of a packet made from a missing value
NonePayload == 0

\* the task of the port has run to its end
TaskDone(p) ==
    /\ task[p].st = "running"
    /\ p \in OutputPorts => ocall[p].pc = "idle"
    /\ p \in InputPorts => icall[p]["receive_packet"].pc = "idle"

\* Task.result() or Task.exception() of a task that is done.
\* PortInterface.receive reads packet.value, which raises AttributeError on
\* the None that receive_packet returns for an optional port without
\* connection
TaskResult(p) ==
    IF p \in OutputPorts THEN ocall[p].res
    ELSE IF task[p].op = "receive" /\ received(p).kind = "None"
         THEN Raised("AttributeError")
         ELSE received(p)

\* ensure_future can be modelled for the port: it has no task that is still
\* to run
Free(p) == task[p].st = "none" \/ TaskDone(p)

\* the loop of the component is between two statements
AtStatement(comp) == setcall[comp].pc = "idle"

\* the frame of a statement that only makes or awaits tasks
schedule_frame ==
    /\ UNCHANGED <<portvars, connvars, callvars, histvars>>
    /\ UNCHANGED <<wop, polls, rcall, regvars>>

\* PortRegister.receive_packets() up to its first await: one task
\* p.receive_packet() per port of the register that is open
receive_packets(comp) ==
    LET started == {p \in inputs(comp) : open[p]} IN
    /\ AtStatement(comp)
    /\ \A p \in started : Free(p)
    /\ task' = [p \in Ports |->
                  IF p \in started
                  THEN [st |-> "created", op |-> "receive_packet",
                        packet |-> NoPacket]
                  ELSE task[p]]
    /\ \E q \in Orders(started) :
         setcall' = [setcall EXCEPT ![comp] =
             IF started = {}
             THEN [IdleSet EXCEPT !.op = "receive_packets", !.res = Returned]
             ELSE [op |-> "receive_packets", pc |-> "awaiting",
                   futures |-> q, result |-> {}, res |-> NoOutcome]]
    /\ schedule_frame

\* Component.receive() up to its first await: schedule_receive makes one task
\* p.receive() per input port, open or not
Component_receive(comp) ==
    /\ AtStatement(comp)
    /\ inputs(comp) # {}
    /\ \A p \in inputs(comp) : Free(p)
    /\ task' = [p \in Ports |->
                  IF p \in inputs(comp)
                  THEN [st |-> "created", op |-> "receive",
                        packet |-> NoPacket]
                  ELSE task[p]]
    /\ \E q \in Orders(inputs(comp)) :
         setcall' = [setcall EXCEPT ![comp] =
             [op |-> "receive", pc |-> "awaiting", futures |-> q,
              result |-> {}, res |-> NoOutcome]]
    /\ schedule_frame

\* `data = await v` on the next future of receive_packets or of
\* Component.receive: the result goes into the mapping, an exception of the
\* task is raised in the caller and ends the operation
await_next(comp) ==
    LET p == Head(setcall[comp].futures)
        rest == Tail(setcall[comp].futures) IN
    /\ setcall[comp].pc = "awaiting"
    /\ TaskDone(p)
    /\ task' = [task EXCEPT ![p] = NoTask]
    /\ setcall' = [setcall EXCEPT ![comp] =
         IF TaskResult(p).kind \in {"packet", "None"}
         THEN [@ EXCEPT !.result = @ \cup {<<p, TaskResult(p)>>},
                        !.futures = rest,
                        !.pc = IF rest = <<>> THEN "idle" ELSE "awaiting",
                        !.res = IF rest = <<>> THEN Returned ELSE NoOutcome]
         ELSE [@ EXCEPT !.pc = "idle", !.futures = <<>>,
                        !.res = TaskResult(p)]]
    /\ schedule_frame

\* PortRegister.send_packets(packets): one task p.send_packet(packet) per
\* port of the register, with packets.get(p.name), which is None for a
\* missing key; the list of the futures is returned at once
send_packets(comp, keys, packet) ==
    /\ AtStatement(comp)
    /\ outputs(comp) # {}
    /\ \A p \in outputs(comp) : Free(p)
    /\ task' = [p \in Ports |->
                  IF p \in outputs(comp)
                  THEN IF PortName(p) \in keys
                       THEN [st |-> "created", op |-> "send_packet",
                             packet |-> packet]
                       ELSE [st |-> "created", op |-> "send_packet_None",
                             packet |-> NoPacket]
                  ELSE task[p]]
    /\ \E q \in Orders(outputs(comp)) :
         setcall' = [setcall EXCEPT ![comp] =
             [op |-> "send_packets", pc |-> "has_futures", futures |-> q,
              result |-> {}, res |-> Returned]]
    /\ schedule_frame

\* Component.send(data): one task p.send(data.get(p_name)) per output port;
\* PortInterface.send makes a packet of the value, also of None; the list of
\* the futures is returned at once
Component_send(comp, keys, value) ==
    /\ AtStatement(comp)
    /\ outputs(comp) # {}
    /\ \A p \in outputs(comp) : Free(p)
    /\ task' = [p \in Ports |->
                  IF p \in outputs(comp)
                  THEN [st |-> "created", op |-> "send",
                        packet |-> InformationPacket(
                            IF PortName(p) \in keys THEN value
                            ELSE NonePayload, None)]
                  ELSE task[p]]
    /\ \E q \in Orders(outputs(comp)) :
         setcall' = [setcall EXCEPT ![comp] =
             [op |-> "send", pc |-> "has_futures", futures |-> q,
              result |-> {}, res |-> Returned]]
    /\ schedule_frame

\* `await asyncio.wait(futures)` on the list send_packets or Component.send
\* returned: it returns once every task is done and raises nothing
wait_all(comp) ==
    /\ setcall[comp].pc = "has_futures"
    /\ \A k \in DOMAIN setcall[comp].futures :
           TaskDone(setcall[comp].futures[k])
    /\ setcall' = [setcall EXCEPT ![comp].pc = "idle",
                                  ![comp].res = Returned]
    /\ UNCHANGED task
    /\ schedule_frame

\* Component.close_downstream(): one task p.close() per output port, none of
\* them awaited
close_downstream(comp) ==
    /\ AtStatement(comp)
    /\ \A p \in outputs(comp) : Free(p)
    /\ task' = [p \in Ports |->
                  IF p \in outputs(comp)
                  THEN [st |-> "created", op |-> "close",
                        packet |-> NoPacket]
                  ELSE task[p]]
    /\ setcall' = [setcall EXCEPT ![comp] =
             [IdleSet EXCEPT !.op = "close_downstream", !.res = Returned]]
    /\ schedule_frame

\* OutputPort.send_packet(None): the first use of the packet raises
\* AttributeError, packet.owner on a connected port and packet.drop() on an
\* optional port without connection
send_packet_None(p) ==
    /\ ocall[p].pc = "idle"
    /\ ops < MaxOps
    /\ ops' = ops + 1
    /\ ocall' = [ocall EXCEPT ![p].res =
                   IF ~is_connected(p) /\ ~optional[p]
                   THEN Raised("PortDisconnectedError")
                   ELSE Raised("AttributeError")]
    /\ UNCHANGED <<portvars, connvars, icall, wired, histvars>>

\* the first step of a task: the call on its port up to the first suspension
task_start(p) ==
    /\ task[p].st = "created"
    /\ task' = [task EXCEPT ![p].st = "running"]
    /\ CASE task[p].op \in {"receive_packet", "receive"} ->
               receive_packet(p)
         [] task[p].op \in {"send_packet", "send"} ->
               send_packet(p, task[p].packet, task[p].op)
         [] task[p].op = "close" ->
               send_packet(p, EndOfStream(component[p]), "close")
         [] task[p].op = "send_packet_None" ->
               send_packet_None(p)
    /\ UNCHANGED <<wop, polls, rcall, regvars, setcall>>

\* the payloads a loop sends
SetValues == {1}
\* the key sets of the mappings handed to the set-wide sends
KeySets == {{}, {"OUT"}}

\* number of set-wide operations the loops call, all components together
MaxSetCalls == 3
\* the tasks on output ports made so far, started or not
Scheduled == ops + Cardinality({p \in OutputPorts : task[p].st = "created"})
\* the component calls one more operation, whose sends fit into MaxOps
SetBudget(comp) ==
    /\ nset < MaxSetCalls
    /\ nset' = nset + 1
    /\ Scheduled + Cardinality(outputs(comp)) <= MaxOps
    /\ UNCHANGED <<loop, gen>>
\* the component calls one more operation on its inputs
GetBudget(comp) ==
    /\ nset < MaxSetCalls
    /\ nset' = nset + 1
    /\ inputs(comp) # {}
    /\ UNCHANGED <<loop, gen>>
\* a step inside an operation or a task
Inner == UNCHANGED <<nset, loop, gen>>

\* the graph is wired before the loops run
SetConnect ==
    /\ task = [p \in Ports |-> NoTask]
    /\ setcall = [c \in Components |-> IdleSet]
    /\ Connect

ReceivePackets == \E comp \in Components :
    GetBudget(comp) /\ receive_packets(comp)
ComponentReceive == \E comp \in Components :
    GetBudget(comp) /\ Component_receive(comp)
AwaitNext == Inner /\ \E comp \in Components : await_next(comp)
SendPackets == \E comp \in Components, keys \in KeySets, v \in SetValues :
    SetBudget(comp) /\ send_packets(comp, keys, InformationPacket(v, None))
ComponentSend == \E comp \in Components, keys \in KeySets, v \in SetValues :
    SetBudget(comp) /\ Component_send(comp, keys, v)
WaitAll == Inner /\ \E comp \in Components : wait_all(comp)
CloseDownstream == \E comp \in Components :
    SetBudget(comp) /\ outputs(comp) # {} /\ close_downstream(comp)
TaskStart == Inner /\ \E p \in Ports : task_start(p)

SetNext ==
    \/ SetConnect
    \/ ReceivePackets
    \/ ComponentReceive
    \/ AwaitNext
    \/ SendPackets
    \/ ComponentSend
    \/ WaitAll
    \/ CloseDownstream
    \/ TaskStart
    \/ PutStep
    \/ SendDone
    \/ DropDone
    \/ RaceGet
    \/ RaceResolve
    \/ JoinStart
    \/ CloseDone
    \/ NoData

\* The loops close no input port themselves, so that a Queue.join that has
\* to wait is never resumed: JoinStep has no place here.
SetSpec == Init /\ [][SetNext]_vars

\* ---------------------------------------------- the provided components
\* largest number of items of the generator handed to GeneratorSource
MaxGen == 2

\* the classes of components.py a source, a transform and a sink are made of
Classes(comp) == CASE comp = "A" -> {"GeneratorSource"}
                   [] comp = "B" -> {"Filter", "BroadcastApplyFunction"}
                   [] comp = "S" -> {"ShowInputs", "Shell"}

\* the components are constructed, each with the ports Init gives it, and the
\* source holds a generator of gen items
RunInit ==
    /\ component = [p \in Ports |-> Registered(p)]
    /\ ports = [r \in Registers |-> [n \in Names |->
                   IF \E p \in Ports : InRegister(p) = r /\ PortName(p) = n
                   THEN CHOOSE p \in Ports : InRegister(p) = r /\ PortName(p) = n
                   ELSE NoPort]]
    /\ loop \in {l \in [Components -> [class : UNION {Classes(c) : c \in Components},
                                       pc : {"unstarted"}, exc : {None}]] :
                    \A c \in Components : l[c].class \in Classes(c)}
    /\ gen \in 0..MaxGen
    /\ Unwired

\* the frame of a step of a run loop that calls nothing
loop_frame ==
    /\ UNCHANGED <<portvars, connvars, callvars, histvars>>
    /\ UNCHANGED <<wop, polls, rcall, regvars, task, setcall, nset>>

\* the loop ends: __call__ returns, or an exception leaves it
returns(comp) == loop' = [loop EXCEPT ![comp].pc = "returned"]
raises(comp, e) == loop' = [loop EXCEPT ![comp].pc = "raised", ![comp].exc = e]

\* the graph is wired before it is run
RunConnect ==
    /\ \A c \in Components : loop[c].pc = "unstarted"
    /\ Connect

\* the graph runner invokes the run loop of every component once
RunStart ==
    /\ \A c \in Components : loop[c].pc = "unstarted"
    /\ loop' = [c \in Components |-> [loop[c] EXCEPT !.pc = "running"]]
    /\ UNCHANGED gen
    /\ loop_frame

\* GeneratorSource.__call__: the body of the for loop calls
\* self.send_to_all, which Component does not define; after the last item
\* close_downstream is called, which does not suspend, and the loop returns
GeneratorSource_call(comp) ==
    /\ loop[comp].class = "GeneratorSource"
    /\ loop[comp].pc = "running"
    /\ UNCHANGED <<gen, nset>>
    /\ IF gen > 0
       THEN /\ raises(comp, "AttributeError")
            /\ UNCHANGED <<task, setcall>>
            /\ UNCHANGED <<portvars, connvars, callvars, histvars>>
            /\ UNCHANGED <<wop, polls, rcall, regvars>>
       ELSE /\ close_downstream(comp)
            /\ returns(comp)

\* Filter.__call__ and BroadcastApplyFunction.__call__ at the head of the
\* while loop: `data = await self.receive()` up to its first suspension
Transform_receive(comp) ==
    /\ loop[comp].class \in {"Filter", "BroadcastApplyFunction"}
    /\ loop[comp].pc = "running"
    /\ Component_receive(comp)
    /\ loop' = [loop EXCEPT ![comp].pc = "receiving"]
    /\ UNCHANGED <<gen, nset>>

\* the values of the predicate of a Filter
Predicate == {TRUE, FALSE}

\* Filter.__call__ and BroadcastApplyFunction.__call__ after self.receive():
\* an exception of receive leaves the loop, StopAsyncIteration included, with
\* no statement that closes the outputs; with data the function or the
\* predicate is applied, and every path but the Filter's `continue` calls
\* self.send_to_all, which Component does not define
Transform_received(comp) ==
    /\ loop[comp].class \in {"Filter", "BroadcastApplyFunction"}
    /\ loop[comp].pc = "receiving"
    /\ setcall[comp].pc = "idle"
    /\ IF setcall[comp].res # Returned
       THEN raises(comp, setcall[comp].res.kind)
       ELSE IF loop[comp].class = "Filter"
            THEN \E filter_result \in Predicate :
                    IF filter_result
                    THEN raises(comp, "AttributeError")
                    ELSE loop' = [loop EXCEPT ![comp].pc = "running"]
            ELSE raises(comp, "AttributeError")
    /\ UNCHANGED gen
    /\ loop_frame

\* ShowInputs.__call__ and Shell.__call__: the first statement calls
\* self.receive_packets, which Component does not define
Sink_call(comp) ==
    /\ loop[comp].class \in {"ShowInputs", "Shell"}
    /\ loop[comp].pc = "running"
    /\ raises(comp, "AttributeError")
    /\ UNCHANGED gen
    /\ loop_frame

GeneratorSourceCall == \E comp \in Components : GeneratorSource_call(comp)
TransformReceive == \E comp \in Components : Transform_receive(comp)
TransformReceived == \E comp \in Components : Transform_received(comp)
SinkCall == \E comp \in Components : Sink_call(comp)

RunNext ==
    \/ RunConnect
    \/ RunStart
    \/ GeneratorSourceCall
    \/ TransformReceive
    \/ TransformReceived
    \/ SinkCall
    \/ AwaitNext
    \/ TaskStart
    \/ SendDone
    \/ RaceGet
    \/ RaceResolve
    \/ JoinStart
    \/ CloseDone
    \/ NoData

\* The only packet these loops send is the EndOfStream of the source, on a
\* port that is not optional: no queue gets full, no packet is dropped and no
\* join has to wait, so PutStep, DropDone and JoinStep have no place here.
RunSpec == RunInit /\ [][RunNext]_vars

\* ------------------------------------- ports with an initial packet
\* receive_packet called by the component; the calls on a port without
\* connection are counted against MaxWireOps
IipReceive == \E p \in InputPorts :
    /\ is_connected(p) \/ ops < MaxWireOps
    /\ receive_packet(p)
    /\ UNCHANGED xvars

IipCloseInput == ops < MaxWireOps /\ CloseInput

\* A graph whose input ports may hold an initial packet, wired with connect
\* and set_initial_packet and then run with calls on the single ports
IipNext ==
    \/ Connect
    \/ SetInitialPacket
    \/ WireSend
    \/ WireClose
    \/ PutStep
    \/ SendDone
    \/ DropDone
    \/ IipReceive
    \/ RaceGet
    \/ RaceResolve
    \/ IipCloseInput
    \/ JoinStart
    \/ JoinStep
    \/ CloseDone
    \/ NoData

IipSpec == Init /\ [][IipNext]_vars

\* -------------------------------------------------------------- properties
IsPrefix(s, t) == Len(s) <= Len(t) /\ s = SubSeq(t, 1, Len(s))

\* C1: on an input port bound to two or more connections a receive_packet
\* call takes exactly one packet from exactly one connection, whatever the
\* queues hold when it is called: at no time has the call taken packets from
\* two of its connections.
C1_OnePacketPerReceive ==
    \A p \in InputPorts :
        Cardinality(connections[p]) >= 2 =>
            Cardinality(icall[p]["receive_packet"].done) <= 1

\* C2: a connection of capacity C >= 1 never holds more than C packets; while
\* nothing was received from it, a send is suspended on it only when C
\* packets were put before (the first C sends do not suspend, the next one
\* does); a suspended send cannot resume while the queue is full and can
\* resume as soon as a receive made room.
C2_Backpressure ==
    \A c \in Conns :
        (kind[c] = "Connection" /\ maxsize[c] >= 1) =>
            /\ Len(queue[c]) <= maxsize[c]
            /\ \A p \in source[c] :
                /\ (deq[c] = <<>> /\ c \in ocall[p].pending) =>
                       Len(enq[c]) = maxsize[c]
                /\ (deq[c] = <<>> /\ ocall[p].pc = "waiting"
                        /\ Len(sent[p]) <= maxsize[c]) =>
                       c \notin ocall[p].pending
                /\ (deq[c] = <<>> /\ Len(sent[p]) > maxsize[c]) =>
                       c \in ocall[p].pending
                /\ (c \in ocall[p].pending /\ Len(queue[c]) = maxsize[c]) =>
                       ~ENABLED put_step(p, c)
                /\ (c \in ocall[p].pending /\ Len(queue[c]) < maxsize[c]) =>
                       ENABLED put_step(p, c)

\* C2 witness: the send after the first C ones is suspended on a connection
\* of capacity C that nothing was received from
C2_Suspended ==
    \E c \in Conns : \E p \in source[c] :
        /\ maxsize[c] >= 1
        /\ deq[c] = <<>>
        /\ Len(enq[c]) = maxsize[c]
        /\ c \in ocall[p].pending

\* C3: on every connection the packets received so far are, in order, a
\* prefix of the packets put on it, the rest being the queue in order; and
\* the packets put on a connection are, in order, a prefix of the packets its
\* source port sent, so every destination of a fan-out sees the port's order.
C3_Fifo ==
    \A c \in Conns :
        /\ enq[c] = deq[c] \o queue[c]
        /\ IsPrefix(deq[c], enq[c])
        /\ \A p \in source[c] : IsPrefix(enq[c], sent[p])

\* C3 witness: both destinations of a fan-out over connections of capacity 1
\* have received two packets
C3_TwoReceivedEach ==
    \E p \in OutputPorts :
        /\ Cardinality(connections[p]) = 2
        /\ \A c \in connections[p] : maxsize[c] = 1 /\ Len(deq[c]) >= 2

\* C4: once a send on a connected output port has completed, every one of
\* its connections was offered exactly the packets the port sent, one per
\* send; while a send is in progress the connections it is still suspended
\* on lack exactly the packet being sent.
C4_FanOut ==
    \A p \in OutputPorts : \A c \in connections[p] :
        IF c \in ocall[p].pending
        THEN /\ sent[p] # <<>>
             /\ enq[c] = SubSeq(sent[p], 1, Len(sent[p]) - 1)
        ELSE enq[c] = sent[p]

\* C4 witness: two sends have completed on a port with two connections
C4_TwoSendsTwoDestinations ==
    \E p \in OutputPorts :
        /\ Cardinality(connections[p]) = 2
        /\ ocall[p].pc = "idle"
        /\ Len(sent[p]) >= 2

\* what a sink observes of the packets s a source sent
Observed(s) ==
    [k \in 1..Len(s) |-> IF s[k].is_eos THEN Raised("StopAsyncIteration")
                         ELSE Outcome("packet", s[k])]

\* the source sent data packets and then, at most, closed
SendsThenClose(s) == \A k \in 1..Len(s) : s[k].is_eos => k = Len(s)

C6_EndOfStreamEndsReceive ==
    \A p \in InputPorts :
        LET call == icall[p]["receive_packet"] IN
        (call.pc = "idle" /\ \E w \in call.done : w[2].is_eos) =>
            (call.res = Raised("StopAsyncIteration") /\ ~open[p])

\* C7: a send, send_packet or receive_packet call that starts on a closed
\* port ends at once with PortClosedError, and a close call that starts on a
\* closed port returns; no such call changes a queue.
C7_ClosedPortRefuses ==
    [][/\ \A p \in OutputPorts :
            (~open[p] /\ ocall[p].pc = "idle" /\ ocall'[p] # ocall[p]) =>
                /\ ocall'[p].pc = "idle"
                /\ ocall'[p].res \in {Raised("PortClosedError"), Returned}
                /\ queue' = queue
       /\ \A p \in InputPorts :
            (~open[p] /\ icall[p]["receive_packet"].pc = "idle"
                /\ icall'[p]["receive_packet"] # icall[p]["receive_packet"]) =>
                /\ icall'[p]["receive_packet"].pc = "idle"
                /\ icall'[p]["receive_packet"].res = Raised("PortClosedError")
                /\ queue' = queue]_vars

\* C8: a packet made by send of one component carries that component as its
\* owner, and send_packet of another component never takes a packet it
\* received on for delivery: no forwarding call gets past the owner check.
C8_ForwardRefused ==
    \A p \in OutputPorts :
        ocall[p].pc = "waiting" => ocall[p].op # "send_packet"

\* C9: the connections bound to an input port all have the capacity of the
\* first one, a connect with another capacity having failed, and no connect
\* adds a connection of another capacity.
C9_OneCapacity ==
    \A i \in InputPorts : \A c, d \in connections[i] : maxsize[c] = maxsize[d]

C18_MandatoryDisconnected ==
    [][/\ \A p \in OutputPorts :
            (~optional[p] /\ connections[p] = {} /\ ocall[p].pc = "idle"
                /\ ocall'[p] # ocall[p]) =>
                /\ ocall'[p].pc = "idle"
                /\ ocall'[p].res = Raised("PortDisconnectedError")
                /\ open' = open
                /\ connections' = connections
                /\ connvars' = connvars
                /\ enq' = enq
       /\ \A p \in InputPorts :
            (~optional[p] /\ connections[p] = {}
                /\ icall[p]["receive_packet"].pc = "idle"
                /\ icall'[p]["receive_packet"] # icall[p]["receive_packet"]) =>
                /\ icall'[p]["receive_packet"].pc = "idle"
                /\ icall'[p]["receive_packet"].res =
                       Raised("PortDisconnectedError")
                /\ open' = open
                /\ connections' = connections
                /\ connvars' = connvars
                /\ deq' = deq]_vars

\* C18 witness: a call has failed with PortDisconnectedError on a mandatory
\* output port and on a mandatory input port, both without connection and
\* still open
C18_BothFailed ==
    /\ \E p \in OutputPorts :
        /\ ~optional[p] /\ connections[p] = {} /\ open[p]
        /\ ocall[p].res = Raised("PortDisconnectedError")
    /\ \E p \in InputPorts :
        /\ ~optional[p] /\ connections[p] = {} /\ open[p]
        /\ received(p) = Raised("PortDisconnectedError")

\* C11: an IIPConnection made with the value v gives v to its first receive()
\* and EndOfStream to every later one; its n_rec is 1 until the first
\* receive() and 0 after, never negative.
C11_SingleDelivery ==
    \A c \in Conns :
        kind[c] = "IIPConnection" =>
            /\ n_rec[c] = IF polls[c] = <<>> THEN 1 ELSE 0
            /\ \A k \in 1..Len(polls[c]) :
                   polls[c][k] = IF k = 1 THEN iipvalue[c]
                                 ELSE EndOfStream(None)

\* C11 witness: MaxPolls receive() calls were made on an IIPConnection
C11_PolledOften ==
    \E c \in Conns :
        /\ kind[c] = "IIPConnection"
        /\ Len(polls[c]) = MaxPolls
        /\ ~polls[c][1].is_eos
        /\ polls[c][MaxPolls].is_eos

\* C17: receive_packet (and receive) on an output port raises
\* OutputOnlyError and send_packet (and send) on an input port raises
\* InputOnlyError, whatever the state of the port, and the call changes no
\* field of a port, no connection and no queue.
C17_RoleViolation ==
    [][rcall' # rcall =>
          /\ rcall'[1] \in OutputPorts => rcall'[2] = "OutputOnlyError"
          /\ rcall'[1] \in InputPorts => rcall'[2] = "InputOnlyError"
          /\ UNCHANGED <<portvars, connvars, callvars, histvars>>]_vars

\* C17 witness: receive_packet was called on an output port that is closed
\* and connected, and send_packet on an input port that holds a connection
C17_CalledOnClosedPort ==
    /\ rcall # <<"none">>
    /\ rcall[1] \in OutputPorts
    /\ ~open[rcall[1]]
    /\ connections[rcall[1]] # {}

\* the step is a pipe statement
PipeStep ==
    /\ wop'[1] \in {"rshift", "rrshift"}
    /\ <<kind, wop, wired>>' # <<kind, wop, wired>>

\* C19: a >> b of an output port a and an input port b has the effect of
\* a.connect(b); a pipe statement that fails binds nothing; and among the
\* pipe statements only value >> inputPort binds an IIPConnection.
C19_PipeIsConnect ==
    [][PipeStep =>
          /\ (wop'[1] = "rshift" /\ wop'[2] \in OutputPorts
                 /\ wop'[3] \in InputPorts) =>
                 \E c \in Conns :
                     Fresh(c) /\ Connection_connect(c, wop'[2], wop'[3], -1)
          /\ wired' # "connected" => connections' = connections
          /\ (\E c \in Conns : kind[c] = "none"
                                 /\ kind'[c] = "IIPConnection") =>
                 (wop'[1] = "rrshift" /\ wop'[2] = NonPort
                     /\ wop'[3] \in InputPorts)]_vars

\* C20: connect puts the new connection into the connection sets of both
\* ports, which then report is_connected; disconnect takes it out of the
\* connection set of every port, so that a port whose only connection it was
\* is not connected any more, and changes no queue.
C20_ConnectDisconnect ==
    [][/\ \A c \in Conns :
            (wop'[1] = "connect" /\ kind[c] = "none"
                 /\ kind'[c] = "Connection") =>
                /\ c \in connections'[wop'[2]]
                /\ c \in connections'[wop'[3]]
                /\ Cardinality(connections'[wop'[2]]) > 0
                /\ Cardinality(connections'[wop'[3]]) > 0
       /\ \A c \in Conns :
            (wop'[1] = "disconnect"
                 /\ \E p \in Ports : c \in connections[p] \ connections'[p]) =>
                /\ \A p \in Ports :
                    /\ c \notin connections'[p]
                    /\ connections[p] = {c} =>
                           Cardinality(connections'[p]) = 0
                /\ UNCHANGED <<queue, enq, deq>>]_vars

\* C20 witness: a connection that holds a packet was disconnected and is in
\* no port's connection set
C20_DisconnectedWithPacket ==
    /\ wop = <<"disconnect">>
    /\ wired = "disconnected"
    /\ \E c \in Conns :
        /\ queue[c] # <<>>
        /\ \A p \in Ports : c \notin connections[p]
        /\ \E p \in Ports : connections[p] = {}  /\ p \in source[c]

\* C16: adding a port to a register under a key that is taken raises
\* PortAlreadyExistingError and leaves the register as it was, so the key
\* still gives the port it had; asking for a key the register does not hold
\* raises PortNotExistingError.
C16_DuplicateName ==
    [][/\ (regop'[1] = "add_as" /\ ports[regop'[2]][regop'[4]] # NoPort) =>
              /\ regres' = "PortAlreadyExistingError"
              /\ ports' = ports
       /\ (regop'[1] = "getitem" /\ ports[regop'[2]][regop'[3]] = NoPort) =>
              regres' = "PortNotExistingError"]_vars

\* the errors of the ports
PortErrors == {"PortDisconnectedError", "PortClosedError",
               "PacketOwnedError", "InputOnlyError", "OutputOnlyError"}

\* C13: receive_packets, when the receive_packet of a port gave a packet or
\* met the end of the stream, returns a mapping that holds an entry for the
\* port (the packet or a marker of the end), and every packet its tasks took
\* from a connection is in the mapping.
C13_ReceiveAll ==
    [][\A comp \in Components :
          (/\ setcall[comp].op = "receive_packets"
           /\ setcall[comp].pc = "awaiting"
           /\ setcall'[comp].pc = "idle") =>
              LET p == Head(setcall[comp].futures) IN
              TaskResult(p).kind \in {"packet", "None", "StopAsyncIteration"}
              => /\ setcall'[comp].res = Returned
                 /\ \E w \in setcall'[comp].result : w[1] = p
                 /\ \A d \in icall[p]["receive_packet"].done :
                       \E w \in setcall'[comp].result :
                           w[1] = p /\ w[2].packet = d[2]]_vars

\* C14: when send_packets or Component.send has returned to the loop, every
\* send it issued has completed, and the send for a key that is missing from
\* the mapping has raised no error.
C14_SendAll ==
    \A comp \in Components :
        (setcall[comp].op \in {"send_packets", "send"}
            /\ setcall[comp].pc = "has_futures") =>
            \A k \in DOMAIN setcall[comp].futures :
                LET p == setcall[comp].futures[k] IN
                /\ TaskDone(p)
                /\ task[p].op = "send_packet_None" => ocall[p].res = Returned

\* C15: when a task that a set-wide operation of a component made has ended
\* with an error of its port, the statement of the loop that made it does
\* not end as if it had succeeded: it raises that error.
C15_ErrorsObserved ==
    \A comp \in Components : \A p \in inputs(comp) \cup outputs(comp) :
        (/\ TaskDone(p)
         /\ TaskResult(p).kind \in PortErrors
         /\ setcall[comp].pc = "idle"
         /\ setcall[comp].op # "none") =>
            setcall[comp].res = TaskResult(p)

\* the graph is source -> transform -> sink: A.OUT feeds B.IN and B.OUT
\* feeds S.IN, each through one connection
LinearGraph ==
    \E c \in Conns, d \in Conns :
        /\ c # d
        /\ connections["A.OUT"] = {c} /\ connections["B.IN"] = {c}
        /\ connections["B.OUT"] = {d} /\ connections["S.IN"] = {d}

\* the run loop of the component is over
Ended(comp) == loop[comp].pc \in {"returned", "raised"}

\* C12: in a linear graph of provided components whose source has emitted
\* its values and closed its output, the run cannot come to rest before
\* every run loop is over and the input port of the sink is closed.
C12_Terminates ==
    (/\ LinearGraph
     /\ loop["A"].pc = "returned"
     /\ ~open["A.OUT"]
     /\ ~ENABLED RunNext) =>
        /\ \A comp \in Components : Ended(comp)
        /\ ~open["S.IN"]

\* C21: every port starts open, and no step makes a closed port open: the
\* open flag of a port changes at most once, from open to closed.
C21_ClosedStaysClosed ==
    /\ \A p \in Ports : open[p]
    /\ [][\A p \in Ports : open'[p] => open[p]]_vars

\* C21 witness: an input port with an initial packet was closed by its first
\* receive_packet, a later receive_packet was made on it, and it is closed
C21_CalledAfterClose ==
    \E p \in InputPorts :
        /\ iip[p]
        /\ ~open[p]
        /\ Len(got[p]) = 1
        /\ received(p) = Raised("PortClosedError")

\* the port is in OutputPort.close, suspended in the send of the EndOfStream
Closing(p) == ocall[p].pc = "waiting" /\ ocall[p].op = "close"

\* C22: a close() of a connected output port appends one EndOfStream owned
\* by the port's component to what the port has sent; while the call is
\* suspended the port is open and each bound connection has been given
\* either all the port has sent or all but that EndOfStream; when the call
\* completes every bound connection has been given all of it, the
\* EndOfStream last, and the port is closed; a connected port is marked
\* closed only by such a step.
C22_CloseSendsEndOfStream ==
    /\ [](\A p \in OutputPorts : Closing(p) =>
            /\ open[p] \/ \E n \in 1..(Len(sent[p]) - 1) : sent[p][n].is_eos
            /\ Len(sent[p]) > 0
            /\ sent[p][Len(sent[p])].is_eos
            /\ sent[p][Len(sent[p])].owner = component[p]
            /\ \A c \in connections[p] :
                  enq[c] = IF c \in ocall[p].pending
                           THEN SubSeq(sent[p], 1, Len(sent[p]) - 1)
                           ELSE sent[p])
    /\ [][\A p \in OutputPorts :
            /\ (Closing(p) /\ ocall'[p].pc = "idle") =>
                  /\ ~open'[p]
                  /\ sent'[p] = sent[p]
                  /\ \A c \in connections[p] : enq'[c] = sent[p]
            /\ (~Closing(p) /\ Closing(p)') =>
                  /\ sent'[p] = Append(sent[p], ocall'[p].packet)
                  /\ connections[p] # {}
            /\ (open[p] /\ ~open'[p] /\ connections[p] # {}) =>
                  /\ Closing(p)
                  /\ \A c \in connections[p] : enq'[c] = sent[p]]_vars

\* C22 witness: a closed port with two connections that sent a packet before
\* its EndOfStream, one of the connections having been full at the close
C22_ClosedAfterPackets ==
    \E p \in OutputPorts :
        /\ ~open[p]
        /\ ocall[p].pc = "idle"
        /\ Cardinality(connections[p]) = 2
        /\ Len(sent[p]) = 2
        /\ ~sent[p][1].is_eos
        /\ \E c \in connections[p] : maxsize[c] = 1

\* C23: once the close_downstream() of a component has returned, each of its
\* connected output ports is closed and every connection bound to one of
\* them has been given an EndOfStream.
C23_ClosedOnReturn ==
    \A comp \in Components :
        (/\ setcall[comp].op = "close_downstream"
         /\ setcall[comp].pc = "idle"
         /\ setcall[comp].res = Returned) =>
            \A p \in outputs(comp) : is_connected(p) =>
                /\ ~open[p]
                /\ \A c \in connections[p] :
                      \E n \in 1..Len(enq[c]) : enq[c][n].is_eos

\* the initial packets of the input port
initial_packets(p) ==
    {iipvalue[c] : c \in {d \in connections[p] : kind[d] = "IIPConnection"}}

\* the receive_packet call of the port ends in this step
ReceiveEnds(p) ==
    /\ icall'[p]["receive_packet"].pc = "idle"
    /\ icall'[p]["receive_packet"] # icall[p]["receive_packet"]

\* C24: on an input port with an initial packet a receive_packet that found
\* the port open returns an initial packet and leaves the port closed,
\* having taken no packet from a Connection of the port; one that found the
\* port closed raises PortClosedError.
C24_InitialPacketOnce ==
    [][\A p \in InputPorts : (iip[p] /\ ReceiveEnds(p)) =>
          IF icall[p]["receive_packet"].pc = "racing"
          THEN /\ received(p)'.kind = "packet"
               /\ received(p)'.packet \in initial_packets(p)
               /\ ~open'[p]
               /\ \A w \in icall[p]["receive_packet"].done :
                     kind[w[1]] = "IIPConnection"
          ELSE received(p)' = Raised("PortClosedError")]_vars

\* C25: an input port without initial packet is marked closed only when none
\* of its connections holds a packet, and a close() on a port with an
\* initial packet marks the port closed in the step that calls it.
C25_ClosedWhenDrained ==
    [][\A p \in InputPorts :
          /\ (~iip[p] /\ open[p] /\ ~open'[p]) =>
                \A c \in connections[p] : queue'[c] = <<>>
          /\ (iip[p] /\ icall'[p]["close"] # icall[p]["close"]) =>
                /\ ~open'[p]
                /\ icall'[p]["close"].pc = "idle"
                /\ icall'[p]["close"].res = Returned]_vars

\* C26: a call that sends on a connected output port returns only in a step
\* before which none of its Connection.send tasks is suspended and every
\* bound connection has been given the packet; a task leaves the suspended
\* ones only by putting the packet on its connection; while the queue of a
\* suspended task is full the call is suspended and the task cannot resume,
\* although the other connections have the packet; once the queue has room
\* the task can resume.
C26_SendWaitsForAll ==
    /\ [](\A p \in OutputPorts : \A c \in ocall[p].pending :
            /\ ocall[p].pc = "waiting"
            /\ c \in connections[p]
            /\ \A d \in connections[p] \ ocall[p].pending :
                  /\ enq[d] # <<>>
                  /\ enq[d][Len(enq[d])] = ocall[p].packet
            /\ full(c) => ~ENABLED put_step(p, c)
            /\ ~full(c) => ENABLED put_step(p, c))
    /\ [][\A p \in OutputPorts :
            /\ (ocall[p].pc = "waiting" /\ ocall'[p].pc = "idle") =>
                  /\ ocall[p].pending = {}
                  /\ ocall'[p].res = Returned
                  /\ \A c \in connections[p] :
                        /\ enq'[c] = sent'[p]
                        /\ enq'[c][Len(enq'[c])] = ocall[p].packet
            /\ \A c \in ocall[p].pending \ ocall'[p].pending :
                  enq'[c] = Append(enq[c], ocall[p].packet)]_vars

\* C26 witness: a send on a port with two connections is suspended on one of
\* them, whose queue is full, and the other already has the packet
C26_SuspendedOnOne ==
    \E p \in OutputPorts : \E c, d \in connections[p] :
        /\ ocall[p].pc = "waiting"
        /\ ocall[p].op = "send"
        /\ ocall[p].pending = {c}
        /\ full(c)
        /\ d # c
        /\ enq[d][Len(enq[d])] = ocall[p].packet
        /\ Len(enq[d]) = Len(enq[c]) + 1

C28_RegisteredOwner ==
    /\ [](\A r \in Registers, n \in Names :
            ports[r][n] # NoPort =>
                component[ports[r][n]] = RegisterComponent(r))
    /\ [][/\ \A p \in Ports :
                component[p] # None => component'[p] = component[p]
          /\ (regop'[1] \in {"add_as", "export"}
                 /\ component[regop'[3]] # None) =>
                /\ regres' = "PortAlreadyExistingError"
                /\ ports' = ports
                /\ component' = component]_vars
====
